---- MODULE Spec2Model ----
(***************************************************************************)
(* tke-workload-metrics (main.go): a batch job that reads a configuration, *)
(* lists the Deployments of a namespace, asks the monitoring API for the   *)
(* CPU / memory peak of each one and writes one CSV row per Deployment.    *)
(*                                                                         *)
(* Strings the program tests for emptiness or concatenates are sequences   *)
(* of one-character strings: the empty string is <<>>, concatenation \o.   *)
(* Metric names and messages are atoms.  Metric values (float64) are       *)
(* integers; a nil pointer is <<>> and a pointer to v is <<v>>.            *)
(***************************************************************************)
EXTENDS Integers, Sequences, FiniteSets, TLC

VARIABLES
    pc,            \* position of main(): the statement about to run
    stages,        \* history: the stages of main() that have been entered, in order
    fatalMsg,      \* the message of the klog.Fatal that ended the run, or Nil
    startTimeStr,  \* -start flag
    endTimeStr,    \* -end flag
    config,        \* the global Config
    startTime,     \* time.Time parsed from startTimeStr
    endTime,       \* time.Time parsed from endTimeStr
    deployments,   \* deployments.Items, as the list of their names
    filename,      \* name of the report file
    idx,           \* 1-based position of the range loop over deployments.Items
    peak,          \* (cpuPeakUsage, memPeakUsage) of the call that just returned
    calls,         \* history: one record per DescribeStatisticData call
    records,       \* history: the records handed to writer.Write, in order
    buf,           \* bytes held by the csv writer's bufio.Writer
    disk,          \* the file the run names: whether it exists, and its content
    response,      \* getDeploymentMetrics alone: response.Response.Data
    metrics,       \* getDeploymentMetrics alone: its returned pair, or Nil
    runs,          \* file naming alone: the (namespace, start, end) of two runs
    names          \* file naming alone: the two file names, or Nil

vars == <<pc, stages, fatalMsg, startTimeStr, endTimeStr, config, startTime, endTime,
          deployments, filename, idx, peak, calls, records, buf, disk,
          response, metrics, runs, names>>

mainVars == <<pc, stages, fatalMsg, startTimeStr, endTimeStr, config, startTime,
              endTime, deployments, filename, idx, peak, calls, records, buf, disk>>

Nil == "nil"

\* ------------------------------------------------------------------ bounds

\* longest list of Deployments the cluster returns
MaxDeployments == 3
\* capacity of the csv writer's buffer, in cells (bufio's default is 4096 bytes)
BufSize == 6
\* longest point series of a metric
MaxValues == 3
\* most metric entries in one response
MaxMetrics == 3

\* ------------------------------------------------------------------ strings

Str1(a) == <<a>>
Digit(n) == <<"0", "1", "2", "3", "4", "5", "6", "7", "8", "9">>[n + 1]
Digits2(n) == <<Digit((n \div 10) % 10), Digit(n % 10)>>
Digits4(n) == Digits2(n \div 100) \o Digits2(n % 100)

\* ------------------------------------------------------------------ validate

EmptyStr == <<>>

ErrRegion == "region is required"
ErrClusterID == "clusterID is required"
ErrNamespace == "namespace is required"
ErrSecretID == "secretID is required"
ErrSecretKey == "secretKey is required"

\* validate with the last two checks in the other order
validateKeyFirst(c) ==
    IF c.Region = EmptyStr THEN ErrRegion
    ELSE IF c.ClusterID = EmptyStr THEN ErrClusterID
    ELSE IF c.Namespace = EmptyStr THEN ErrNamespace
    ELSE IF c.SecretKey = EmptyStr THEN ErrSecretKey
    ELSE IF c.SecretID = EmptyStr THEN ErrSecretID
    ELSE Nil

validate(c) ==
    IF c.Region = EmptyStr THEN ErrRegion
    ELSE IF c.ClusterID = EmptyStr THEN ErrClusterID
    ELSE IF c.Namespace = EmptyStr THEN ErrNamespace
    ELSE IF c.SecretID = EmptyStr THEN ErrSecretID
    ELSE IF c.SecretKey = EmptyStr THEN ErrSecretKey
    ELSE Nil

\* ------------------------------------------------------------------ time

\* A -start / -end argument is either a well-formed RFC3339 text, held as its
\* fields (off is the UTC offset in hours), or BadTimeStr.
BadTimeStr == [ok |-> FALSE]
TimeStrOf(D, h, s, off) ==
    [ok |-> TRUE, Y |-> 2024, M |-> 7, D |-> D, h |-> h, m |-> 0, s |-> s, off |-> off]

\* the zero time.Time
ZeroTime == [Y |-> 1, M |-> 1, sec |-> 0, off |-> 0]

\* time.Parse(time.RFC3339, str): the instant (seconds since the start of the
\* month, UTC) and the zone of the text's offset.
ParseOk(str) == str.ok
ParseRFC3339(str) ==
    [Y |-> str.Y, M |-> str.M,
     sec |-> (((str.D - 1) * 24 + str.h) * 60 + str.m) * 60 + str.s - str.off * 3600,
     off |-> str.off]

\* t.UTC().Format("20060102T150405"): the wall clock of t in UTC
FormatCompactUTC(t) ==
    LET day == t.sec \div 86400
        rest == t.sec % 86400
    IN Digits4(t.Y) \o Digits2(t.M) \o Digits2(day + 1) \o <<"T">>
       \o Digits2(rest \div 3600) \o Digits2((rest % 3600) \div 60) \o Digits2(rest % 60)

\* t.Format("20060102T150405"): the wall clock of t in t's own zone; the layout
\* has no zone element.
FormatCompact(t) ==
    LET wall == t.sec + t.off * 3600
        day == wall \div 86400
        rest == wall % 86400
    IN Digits4(t.Y) \o Digits2(t.M) \o Digits2(day + 1) \o <<"T">>
       \o Digits2(rest \div 3600) \o Digits2((rest % 3600) \div 60) \o Digits2(rest % 60)

\* fmt.Sprintf("deployments_metrics_%s_%s_to_%s.csv", ...)
Filename(namespace, st, et) ==
    <<"d", "e", "p", "l", "o", "y", "m", "e", "n", "t", "s", "_", "m", "e", "t", "r", "i", "c", "s", "_">> \o namespace \o <<"_">>
    \o FormatCompact(st) \o <<"_", "t", "o", "_">> \o FormatCompact(et)
    \o <<".", "c", "s", "v">>

\* ------------------------------------------------------------------ getDeploymentMetrics

CpuName == "K8sWorkloadRateCpuCoreUsedRequestMax"
MemName == "K8sWorkloadRateMemWorkingSetBytesRequestMax"
OtherName == "K8sWorkloadPodRestartTotal"

\* A pointer is <<>> (nil) or <<v>>.
Null == <<>>
Ptr(v) == <<v>>
Deref(p) == p[1]

\* result[key] = value on a Go map
MapPut(result, key, value) ==
    [k \in DOMAIN result \cup {key} |-> IF k = key THEN value ELSE result[k]]

\* the loop over metric.Points[0].Values, maxValue being the running maximum
RECURSIVE MaxLoop(_, _)
MaxLoop(values, maxValue) ==
    IF values = <<>> THEN maxValue
    ELSE LET point == Head(values)
         IN MaxLoop(Tail(values),
                    IF point.Value # Null /\ Deref(point.Value) > maxValue
                    THEN Deref(point.Value) ELSE maxValue)

SeriesMax(values) == MaxLoop(values, 0)

\* the last point series in place of the first
LastSeries(metric) == metric.Points[Len(metric.Points)].Values

\* metric.Points[0].Values
FirstSeries(metric) == metric.Points[1].Values

SkipMetric(metric) ==
    \/ metric.MetricName = Null
    \/ Len(metric.Points) = 0
    \/ Len(FirstSeries(metric)) = 0

\* the entries taken by position: the first is CPU, the second memory
MetricsByPosition(data, result) ==
    [k \in DOMAIN result |->
        LET i == IF k = CpuName THEN 1 ELSE 2
        IN IF i <= Len(data) /\ ~SkipMetric(data[i])
           THEN SeriesMax(FirstSeries(data[i])) ELSE result[k]]

\* the loop over metricRawData
RECURSIVE MetricsLoop(_, _)
MetricsLoop(data, result) ==
    IF data = <<>> THEN result
    ELSE LET metric == Head(data)
         IN IF SkipMetric(metric)
            THEN MetricsLoop(Tail(data), result)
            ELSE MetricsLoop(Tail(data),
                             MapPut(result, Deref(metric.MetricName),
                                    SeriesMax(FirstSeries(metric))))

InitialResult == [k \in {CpuName, MemName} |-> 0]

\* the part of getDeploymentMetrics after a successful call
ReduceMetrics(data) ==
    LET result == MetricsLoop(data, InitialResult)
    IN <<result[CpuName], result[MemName]>>

\* The three ways DescribeStatisticData returns.
ErrAPI == "TencentCloudSDKError"
ErrOther == "client error"
ErrNet == "transport error"
\* a type assertion that never matches
IsAPIErrorNever(err) == FALSE
\* the err != nil check left out
IsFatalErrorNever(err) == FALSE
IsAPIError(err) == err = ErrAPI
IsFatalError(err) == ~IsAPIError(err) /\ err # Nil

\* ------------------------------------------------------------------ csv writer

\* fmt.Sprintf("%f", v) for an integral v with |v| < 10
FormatF(v) ==
    (IF v < 0 THEN <<"-">> ELSE <<>>) \o <<Digit(IF v < 0 THEN -v ELSE v)>>
    \o <<".", "0", "0", "0", "0", "0", "0">>

Header ==
    <<<<"N", "a", "m", "e", "s", "p", "a", "c", "e">>,
      <<"D", "e", "p", "l", "o", "y", "m", "e", "n", "t">>,
      <<"C", "P", "U", " ", "U", "s", "a", "g", "e", " ", "M", "a", "x", " ", "(", "p", "e", "r", "c", "e", "n", "t", ")">>,
      <<"M", "e", "m", "o", "r", "y", " ", "U", "s", "a", "g", "e", " ", "M", "a", "x", " ", "(", "p", "e", "r", "c", "e", "n", "t", ")">>>>

Row(namespace, name, cpu, mem) == <<namespace, name, FormatF(cpu), FormatF(mem)>>

\* The state of the writer and of its file: [buf, data].  One cell written to
\* the bufio.Writer under csv.Writer: a cell that does not fit makes the
\* buffer flush to the file first.
WriteCell(w, cell) ==
    IF Len(w.buf) + 1 > BufSize
    THEN [buf |-> <<cell>>, data |-> w.data \o w.buf]
    ELSE [buf |-> Append(w.buf, cell), data |-> w.data]

\* writer.Write(record); its error is dropped by main
RECURSIVE WriterWrite(_, _)
WriterWrite(w, record) ==
    IF record = <<>> THEN w
    ELSE WriterWrite(WriteCell(w, Head(record)), Tail(record))

\* the buffered cells dropped instead of written
WriterDiscard(w) == [buf |-> <<>>, data |-> w.data]

\* writer.Flush()
WriterFlush(w) == [buf |-> <<>>, data |-> w.data \o w.buf]

\* ------------------------------------------------------------------ inputs of a run

Configs ==
    [Region : {EmptyStr, <<"r">>}, ClusterID : {EmptyStr, <<"c">>},
     Namespace : {EmptyStr, <<"n", "s">>}, SecretID : {EmptyStr, <<"i">>},
     SecretKey : {EmptyStr, <<"k">>}]

ZeroConfig ==
    [Region |-> EmptyStr, ClusterID |-> EmptyStr, Namespace |-> EmptyStr,
     SecretID |-> EmptyStr, SecretKey |-> EmptyStr]

TimeStrs == {BadTimeStr, TimeStrOf(18, 0, 0, 8), TimeStrOf(18, 13, 0, 8)}

DeploymentNames == {<<"a">>, <<"b">>, <<"c">>, <<"d">>}

DeploymentLists ==
    {l \in UNION {[1..n -> DeploymentNames] : n \in 0..MaxDeployments} :
        \A i, j \in DOMAIN l : l[i] = l[j] => i = j}

Series(vs) == [Values |-> [i \in DOMAIN vs |-> [Value |-> vs[i]]]]
Metric(name, points) == [MetricName |-> name, Points |-> points]

\* what DescribeStatisticData returns in a run: an error, or Data
CallOutcomes ==
    {[err |-> ErrAPI, data |-> <<>>],
     [err |-> ErrOther, data |-> <<>>],
     [err |-> ErrNet, data |-> <<>>],
     [err |-> Nil, data |-> <<>>],
     [err |-> Nil,
      data |-> <<Metric(Ptr(MemName), <<Series(<<Ptr(4), Null, Ptr(2)>>)>>),
                 Metric(Ptr(CpuName), <<Series(<<Ptr(3), Ptr(9)>>)>>)>>]}

OldData == <<<<"o", "l", "d">>>>

\* ------------------------------------------------------------------ main

pureVars == <<response, metrics, runs, names>>

Init ==
    /\ pc = "flag.Parse"
    /\ stages = <<>>
    /\ fatalMsg = Nil
    /\ startTimeStr = BadTimeStr
    /\ endTimeStr = BadTimeStr
    /\ config = ZeroConfig
    /\ startTime = ZeroTime
    /\ endTime = ZeroTime
    /\ deployments = <<>>
    /\ filename = <<>>
    /\ idx = 1
    /\ peak = <<0, 0>>
    /\ calls = <<>>
    /\ records = <<>>
    /\ buf = <<>>
    /\ disk \in {[exists |-> FALSE, data |-> <<>>], [exists |-> TRUE, data |-> OldData]}
    /\ response = <<>>
    /\ metrics = <<>>
    /\ runs = <<>>
    /\ names = <<>>

\* klog.Fatal / klog.Fatalf: the process exits at once; deferred calls do not run
Fatal(msg) ==
    /\ pc' = "fatal"
    /\ fatalMsg' = msg

\* a stage whose failure is logged without ending the process
StepLogOnly(here, ok, msg, next) ==
    /\ pc = here
    /\ stages' = Append(stages, here)
    /\ pc' = next
    /\ fatalMsg' = IF ok THEN fatalMsg ELSE msg

\* a stage that either fails fatally or goes on to the statement next
Step(here, ok, msg, next) ==
    /\ pc = here
    /\ stages' = Append(stages, here)
    /\ IF ok THEN pc' = next /\ fatalMsg' = fatalMsg ELSE Fatal(msg)

FlagParse ==
    /\ pc = "flag.Parse"
    /\ \E s, e \in TimeStrs : startTimeStr' = s /\ endTimeStr' = e
    /\ pc' = "ReadFile"
    /\ UNCHANGED <<stages, fatalMsg, config, startTime, endTime, deployments, filename,
                   idx, peak, calls, records, buf, disk, pureVars>>

ReadFile ==
    /\ \E ok \in BOOLEAN : Step("ReadFile", ok, "Error reading config file", "Unmarshal")
    /\ UNCHANGED <<startTimeStr, endTimeStr, config, startTime, endTime, deployments,
                   filename, idx, peak, calls, records, buf, disk, pureVars>>

Unmarshal ==
    /\ \E ok \in BOOLEAN, c \in Configs :
          /\ Step("Unmarshal", ok, "Error unmarshaling YAML", "validate")
          /\ config' = IF ok THEN c ELSE config
    /\ UNCHANGED <<startTimeStr, endTimeStr, startTime, endTime, deployments,
                   filename, idx, peak, calls, records, buf, disk, pureVars>>

Validate ==
    /\ Step("validate", validate(config) = Nil, validate(config), "ParseStart")
    /\ UNCHANGED <<startTimeStr, endTimeStr, config, startTime, endTime, deployments,
                   filename, idx, peak, calls, records, buf, disk, pureVars>>

ParseStart ==
    /\ Step("ParseStart", ParseOk(startTimeStr), "Invalid start time", "ParseEnd")
    /\ startTime' = IF ParseOk(startTimeStr) THEN ParseRFC3339(startTimeStr) ELSE startTime
    /\ UNCHANGED <<startTimeStr, endTimeStr, config, endTime, deployments,
                   filename, idx, peak, calls, records, buf, disk, pureVars>>

ParseEnd ==
    /\ Step("ParseEnd", ParseOk(endTimeStr), "Invalid end time", "BuildConfigFromFlags")
    /\ endTime' = IF ParseOk(endTimeStr) THEN ParseRFC3339(endTimeStr) ELSE endTime
    /\ UNCHANGED <<startTimeStr, endTimeStr, config, startTime, deployments,
                   filename, idx, peak, calls, records, buf, disk, pureVars>>

BuildConfigFromFlags ==
    /\ \E ok \in BOOLEAN :
          Step("BuildConfigFromFlags", ok, "kubeconfig error", "NewForConfig")
    /\ UNCHANGED <<startTimeStr, endTimeStr, config, startTime, endTime, deployments,
                   filename, idx, peak, calls, records, buf, disk, pureVars>>

NewForConfig ==
    /\ \E ok \in BOOLEAN : Step("NewForConfig", ok, "clientset error", "List")
    /\ UNCHANGED <<startTimeStr, endTimeStr, config, startTime, endTime, deployments,
                   filename, idx, peak, calls, records, buf, disk, pureVars>>

List ==
    /\ \E ok \in BOOLEAN, items \in DeploymentLists :
          /\ Step("List", ok, "list error", "Create")
          /\ deployments' = IF ok THEN items ELSE deployments
    /\ UNCHANGED <<startTimeStr, endTimeStr, config, startTime, endTime,
                   filename, idx, peak, calls, records, buf, disk, pureVars>>

\* os.Create: the file exists and is empty afterwards
Truncated == [exists |-> TRUE, data |-> <<>>]

Create ==
    /\ filename' = Filename(config.Namespace, startTime, endTime)
    /\ \E ok \in BOOLEAN :
          /\ Step("Create", ok, "create error", "WriteHeader")
          /\ disk' = IF ok THEN Truncated ELSE disk
    /\ UNCHANGED <<startTimeStr, endTimeStr, config, startTime, endTime, deployments,
                   idx, peak, calls, records, buf, pureVars>>

\* writer.Write(record) on the writer of the open file
Write(record) ==
    LET w == WriterWrite([buf |-> buf, data |-> disk.data], record)
    IN /\ buf' = w.buf
       /\ disk' = [disk EXCEPT !.data = w.data]
       /\ records' = Append(records, record)

WriteHeader ==
    /\ pc = "WriteHeader"
    /\ stages' = Append(stages, "WriteHeader")
    /\ Write(Header)
    /\ pc' = "range"
    /\ UNCHANGED <<fatalMsg, startTimeStr, endTimeStr, config, startTime, endTime,
                   deployments, filename, idx, peak, calls, pureVars>>

\* the range loop stopping one element early
InRangeExclusive(i, items) == i < Len(items)

\* the range loop has an element left
InRange(i, items) == i <= Len(items)

\* getDeploymentMetrics(deployment.Name, ...): one DescribeStatisticData call
GetDeploymentMetrics ==
    /\ pc = "range"
    /\ InRange(idx, deployments)
    /\ \E o \in CallOutcomes :
          /\ calls' = Append(calls, [name |-> deployments[idx], err |-> o.err,
                                     data |-> o.data])
          /\ IF IsAPIError(o.err)
             THEN peak' = <<0, 0>> /\ pc' = "writer.Write" /\ fatalMsg' = fatalMsg
             ELSE IF IsFatalError(o.err)
             THEN peak' = peak /\ Fatal(o.err)
             ELSE /\ peak' = ReduceMetrics(o.data)
                  /\ pc' = "writer.Write"
                  /\ fatalMsg' = fatalMsg
    /\ UNCHANGED <<stages, startTimeStr, endTimeStr, config, startTime, endTime,
                   deployments, filename, idx, records, buf, disk, pureVars>>

WriteRow ==
    /\ pc = "writer.Write"
    /\ Write(Row(config.Namespace, deployments[idx], peak[1], peak[2]))
    /\ idx' = idx + 1
    /\ pc' = "range"
    /\ UNCHANGED <<stages, fatalMsg, startTimeStr, endTimeStr, config, startTime,
                   endTime, deployments, filename, peak, calls, pureVars>>

\* main returns: the deferred writer.Flush() runs first ...
DeferredFlush ==
    /\ pc = "range"
    /\ ~InRange(idx, deployments)
    /\ LET w == WriterFlush([buf |-> buf, data |-> disk.data])
       IN buf' = w.buf /\ disk' = [disk EXCEPT !.data = w.data]
    /\ pc' = "file.Close"
    /\ UNCHANGED <<stages, fatalMsg, startTimeStr, endTimeStr, config, startTime,
                   endTime, deployments, filename, idx, peak, calls, records, pureVars>>

\* ... and the deferred file.Close() after it
DeferredClose ==
    /\ pc = "file.Close"
    /\ pc' = "done"
    /\ UNCHANGED <<stages, fatalMsg, startTimeStr, endTimeStr, config, startTime,
                   endTime, deployments, filename, idx, peak, calls, records, buf, disk,
                   pureVars>>

Next ==
    \/ FlagParse
    \/ ReadFile
    \/ Unmarshal
    \/ Validate
    \/ ParseStart
    \/ ParseEnd
    \/ BuildConfigFromFlags
    \/ NewForConfig
    \/ List
    \/ Create
    \/ WriteHeader
    \/ GetDeploymentMetrics
    \/ WriteRow
    \/ DeferredFlush
    \/ DeferredClose

Spec == Init /\ [][Next]_vars

\* ------------------------------------------------------------------ getDeploymentMetrics alone

\* The run's variables, parked: only the variables of the function move.
Parked ==
    /\ pc = "parked"
    /\ stages = <<>>
    /\ fatalMsg = Nil
    /\ startTimeStr = BadTimeStr
    /\ endTimeStr = BadTimeStr
    /\ config = ZeroConfig
    /\ startTime = ZeroTime
    /\ endTime = ZeroTime
    /\ deployments = <<>>
    /\ filename = <<>>
    /\ idx = 1
    /\ peak = <<0, 0>>
    /\ calls = <<>>
    /\ records = <<>>
    /\ buf = <<>>
    /\ disk = [exists |-> FALSE, data |-> <<>>]

SeqsUpTo(S, n) == UNION {[1..k -> S] : k \in 0..n}

PointValues == {Null, Ptr(-2), Ptr(-1), Ptr(1), Ptr(2)}
MetricNames == {Null, Ptr(CpuName), Ptr(MemName), Ptr(OtherName)}

\* responses of one entry with one point series, every series up to MaxValues
OneSeriesResponses ==
    {<<Metric(n, <<Series(vs)>>)>> :
        n \in {Ptr(CpuName), Ptr(MemName)}, vs \in SeqsUpTo(PointValues, MaxValues)}

\* responses of up to MaxMetrics entries, of every name and shape
SomePoints ==
    {<<>>,
     <<Series(<<>>), Series(<<Ptr(5)>>)>>,
     <<Series(<<Ptr(2), Null>>)>>,
     <<Series(<<Ptr(1), Ptr(3)>>), Series(<<Ptr(7)>>)>>}
ManyMetricsResponses ==
    SeqsUpTo({Metric(n, ps) : n \in MetricNames, ps \in SomePoints}, MaxMetrics)

Responses == OneSeriesResponses \cup ManyMetricsResponses

MetricsInit ==
    /\ Parked
    /\ response \in Responses
    /\ metrics = <<>>
    /\ runs = <<>>
    /\ names = <<>>

\* response.Response.Data reduced to (cpu, mem)
Reduce ==
    /\ metrics = <<>>
    /\ metrics' = ReduceMetrics(response)
    /\ UNCHANGED <<mainVars, response, runs, names>>

MetricsNext == Reduce

SpecMetrics == MetricsInit /\ [][MetricsNext]_vars

\* ------------------------------------------------------------------ file naming alone

Namespaces == {<<"n">>, <<"n", "s">>, <<"n", "s", "_", "2">>}
WindowTimes ==
    {TimeStrOf(D, h, s, off) : D \in {17, 18}, h \in {0, 8}, s \in {0}, off \in {0, 8}}
RunArgs == [namespace : Namespaces, start : WindowTimes, end : {TimeStrOf(18, 8, 0, 8), TimeStrOf(18, 8, 30, 0)}]

NamingInit ==
    /\ Parked
    /\ response = <<>>
    /\ metrics = <<>>
    /\ runs \in [1..2 -> RunArgs]
    /\ names = <<>>

\* the file name main computes from its arguments
NameOfRun(r) == Filename(r.namespace, ParseRFC3339(r.start), ParseRFC3339(r.end))

NameFiles ==
    /\ names = <<>>
    /\ names' = <<NameOfRun(runs[1]), NameOfRun(runs[2])>>
    /\ UNCHANGED <<mainVars, response, metrics, runs>>

NamingNext == NameFiles

SpecNaming == NamingInit /\ [][NamingNext]_vars

\* ------------------------------------------------------------------ properties

IsPrefix(s, t) == Len(s) <= Len(t) /\ s = SubSeq(t, 1, Len(s))
Last(s) == s[Len(s)]
Min(S) == CHOOSE x \in S : \A y \in S : x <= y
Max(S) == CHOOSE x \in S : \A y \in S : x >= y

RECURSIVE Flatten(_)
Flatten(rs) == IF rs = <<>> THEN <<>> ELSE Head(rs) \o Flatten(Tail(rs))

\* the statements of main before the loop, in program order
StageOrder ==
    <<"ReadFile", "Unmarshal", "validate", "ParseStart", "ParseEnd",
      "BuildConfigFromFlags", "NewForConfig", "List", "Create", "WriteHeader">>
StageNo(s) == CHOOSE i \in DOMAIN StageOrder : StageOrder[i] = s

Ran(s) == Len(stages) >= StageNo(s)
FailedAt(s) == pc = "fatal" /\ Len(stages) = StageNo(s)
Created == Ran("Create") /\ ~FailedAt("Create")
Ended == pc \in {"done", "fatal"}

NonAPIError(err) == err \in {ErrOther, ErrNet}

\* the row the run owes for its i-th call
PeakOfCall(call) == IF call.err = ErrAPI THEN <<0, 0>> ELSE ReduceMetrics(call.data)
RowOfCall(i) ==
    Row(config.Namespace, deployments[i], PeakOfCall(calls[i])[1], PeakOfCall(calls[i])[2])
Returned == Len(SelectSeq(calls, LAMBDA c : ~NonAPIError(c.err)))
RecordsUpTo(k) == <<Header>> \o [i \in 1..k |-> RowOfCall(i)]

\* C1 as stated: after an API-level error on deployment i a (0,0) row is written
\* for i, the run does not abort, and every later deployment is called and gets
\* its row, whatever the later calls return.
C1_Original ==
    \A i \in 1..Len(calls) :
        calls[i].err = ErrAPI =>
            /\ pc # "fatal"
            /\ pc = "done" =>
                  /\ records[i + 1] = Row(config.Namespace, deployments[i], 0, 0)
                  /\ Len(calls) = Len(deployments)
                  /\ Len(records) = Len(deployments) + 1

\* C1 amended: an API-level error on deployment i does not abort the run, its row
\* is (0,0), the call for deployment i+1 is still made, and every later deployment
\* is called and gets its row up to the first one whose own call fails with a
\* non-API error.
C1_SoftErrorIsolated ==
    \A i \in 1..Len(calls) :
        calls[i].err = ErrAPI =>
            /\ ~(pc = "fatal" /\ i = Len(calls))
            /\ Len(records) > i => records[i + 1] = Row(config.Namespace, deployments[i], 0, 0)
            /\ (pc = "range" \/ i < Len(calls)) => Len(records) > i
            /\ (i < Len(deployments) /\ pc \in {"file.Close", "done", "fatal"})
                  => Len(calls) > i
            /\ pc \in {"file.Close", "done"} =>
                  /\ Len(calls) = Len(deployments)
                  /\ Len(records) = Len(deployments) + 1
            /\ pc = "fatal" =>
                  /\ NonAPIError(Last(calls).err)
                  /\ Len(records) = Len(calls)

C1_Witness ==
    /\ pc = "done"
    /\ Len(calls) = 3
    /\ calls[1].err = ErrAPI
    /\ calls[2].err = Nil /\ calls[2].data # <<>>
    /\ records[2] = Row(config.Namespace, deployments[1], 0, 0)
    /\ records[3] = Row(config.Namespace, deployments[2], 9, 4)

\* C2: a call that fails with a non-API error is the last thing the run does: the
\* run is in the fatal state, no row exists for that deployment, no later call
\* was made, and the completed state is never reached; every call after which the
\* run went on returned no error or an API-level error.
C2_HardErrorAborts ==
    \A i \in 1..Len(calls) :
        /\ NonAPIError(calls[i].err) =>
              /\ pc = "fatal"
              /\ fatalMsg = calls[i].err
              /\ i = Len(calls)
              /\ idx = i
              /\ Len(records) = i
        /\ (i < Len(calls) \/ Len(records) > i \/ pc = "done") =>
              calls[i].err \in {Nil, ErrAPI}

C2_Witness ==
    /\ pc = "fatal"
    /\ Len(deployments) = 3
    /\ Len(calls) = 2
    /\ calls[1].err = Nil
    /\ calls[2].err = ErrNet
    /\ Len(records) = 2

FieldOrder == <<"Region", "ClusterID", "Namespace", "SecretID", "SecretKey">>
RequiredMsg == <<ErrRegion, ErrClusterID, ErrNamespace, ErrSecretID, ErrSecretKey>>
EmptyFields(c) == {i \in DOMAIN FieldOrder : c[FieldOrder[i]] = <<>>}

\* C3: validate accepts exactly the configurations with all five fields non-empty,
\* and otherwise reports the first empty field in the order region, clusterID,
\* namespace, secretID, secretKey, whichever fields are empty.
C3_ValidateFirstEmpty ==
    Ran("validate") =>
        /\ FailedAt("validate") <=> EmptyFields(config) # {}
        /\ FailedAt("validate") => fatalMsg = RequiredMsg[Min(EmptyFields(config))]
        /\ EmptyFields(config) = {} => fatalMsg \notin {RequiredMsg[i] : i \in 1..5}

C3_Witness ==
    /\ FailedAt("validate")
    /\ EmptyFields(config) = {2, 4, 5}
    /\ fatalMsg = ErrClusterID

NonNullValues(values) ==
    {Deref(values[i].Value) : i \in {j \in DOMAIN values : values[j].Value # Null}}
LargestOrZero(values) ==
    IF NonNullValues(values) = {} THEN 0 ELSE Max(NonNullValues(values))

\* C4 as stated: with a successful response, the value of a metric is the largest
\* non-null value of its first point series, whatever the values are (all below
\* zero included), and 0 only when the series has no non-null value.
C4_MaxOfNonNull ==
    (/\ metrics # <<>>
     /\ Len(response) = 1
     /\ response[1].MetricName \in {Ptr(CpuName), Ptr(MemName)}
     /\ Len(response[1].Points) >= 1)
    => LET expected == LargestOrZero(response[1].Points[1].Values)
       IN IF response[1].MetricName = Ptr(CpuName)
          THEN metrics = <<expected, 0>>
          ELSE metrics = <<0, expected>>

DistinctNames(data) ==
    \A i, j \in DOMAIN data :
        (i # j /\ data[i].MetricName = data[j].MetricName) => data[i].MetricName = Null
Reorderings(n) == {f \in [1..n -> 1..n] : \A i, j \in 1..n : f[i] = f[j] => i = j}
ByName(data, name) ==
    LET es == {i \in DOMAIN data : data[i].MetricName = Ptr(name) /\ ~SkipMetric(data[i])}
    IN IF es = {} THEN 0 ELSE SeriesMax(FirstSeries(data[CHOOSE i \in es : TRUE]))
Requested(metric) == metric.MetricName \in {Ptr(CpuName), Ptr(MemName)}

\* C5: the pair depends on the names of the response's entries, not on their
\* positions: with distinct names, the CPU output is the maximum of the entry
\* named K8sWorkloadRateCpuCoreUsedRequestMax, the memory output that of the entry
\* named K8sWorkloadRateMemWorkingSetBytesRequestMax, every permutation of the
\* entries gives the same pair, and entries of any other name change nothing.
C5_MappedByName ==
    (metrics # <<>> /\ DistinctNames(response)) =>
        /\ metrics = <<ByName(response, CpuName), ByName(response, MemName)>>
        /\ \A f \in Reorderings(Len(response)) :
              ReduceMetrics([i \in DOMAIN response |-> response[f[i]]]) = metrics
        /\ ReduceMetrics(SelectSeq(response, Requested)) = metrics

C5_Witness ==
    /\ metrics = <<3, 2>>
    /\ Len(response) = 2
    /\ response[1].MetricName = Ptr(MemName)
    /\ response[2].MetricName = Ptr(CpuName)

FirstSeriesOnly(metric) ==
    [metric EXCEPT !.Points = IF Len(@) = 0 THEN @ ELSE <<@[1]>>]
Column(name) == IF name = CpuName THEN 1 ELSE 2

\* C6: a metric with no entry in the response, or whose entries have no point
\* series or an empty first series, comes out as 0; entries without a name count
\* for nothing; and only the first series of an entry is read, so the pair is the
\* same when every later series is dropped.
C6_DefaultsAndFirstSeries ==
    metrics # <<>> =>
        /\ \A name \in {CpuName, MemName} :
              (\A i \in DOMAIN response :
                  response[i].MetricName = Ptr(name) =>
                      \/ Len(response[i].Points) = 0
                      \/ Len(response[i].Points[1].Values) = 0)
              => metrics[Column(name)] = 0
        /\ ReduceMetrics([i \in DOMAIN response |-> FirstSeriesOnly(response[i])]) = metrics

C6_Witness ==
    /\ metrics = <<0, 2>>
    /\ Len(response) = 2
    /\ response[1] = Metric(Ptr(CpuName), <<Series(<<>>), Series(<<Ptr(5)>>)>>)
    /\ response[2].MetricName = Ptr(MemName)

\* C7: deployments are processed in list order, each called exactly once and none
\* skipped; the call for deployment i+1 comes only after the row of deployment i;
\* a completed run has written the header and one row per deployment, in order.
C7_SerialInListOrder ==
    /\ Len(calls) <= Len(deployments)
    /\ \A i \in 1..Len(calls) : calls[i].name = deployments[i]
    /\ records # <<>> => records[1] = Header
    /\ calls # <<>> => Len(calls) \in {Len(records) - 1, Len(records)}
    /\ \A i \in 2..Len(records) :
          /\ i - 1 <= Len(calls)
          /\ records[i][1] = config.Namespace
          /\ records[i][2] = deployments[i - 1]
    /\ pc = "writer.Write" => (calls # <<>> /\ Len(calls) = Len(records))
    /\ (calls # <<>> /\ Len(calls) = Len(records)) => pc \in {"writer.Write", "fatal"}
    /\ pc = "done" =>
          /\ Len(calls) = Len(deployments)
          /\ records = RecordsUpTo(Len(deployments))
          /\ Len(records) = 1 + Len(deployments)

C7_Witness ==
    /\ pc = "done"
    /\ deployments = <<Str1("c"), Str1("a"), Str1("b")>>
    /\ Len(records) = 4
    /\ records[2][2] = Str1("c")

Instant(str) == ParseRFC3339(str).sec

\* C8 as stated: the same arguments give the same file name, and two runs whose
\* namespace or time window differ give different names, windows that denote
\* different instants because they differ only in UTC offset included.
C8_Original ==
    names # <<>> =>
        /\ runs[1] = runs[2] => names[1] = names[2]
        /\ (\/ runs[1].namespace # runs[2].namespace
            \/ Instant(runs[1].start) # Instant(runs[2].start)
            \/ Instant(runs[1].end) # Instant(runs[2].end))
           => names[1] # names[2]

WallClock(str) == <<str.Y, str.M, str.D, str.h, str.m, str.s>>
SameNameKey(r1, r2) ==
    /\ r1.namespace = r2.namespace
    /\ WallClock(r1.start) = WallClock(r2.start)
    /\ WallClock(r1.end) = WallClock(r2.end)

\* C8 amended: the file name is a function of the namespace and of the wall-clock
\* date and time of start and end as written in the arguments, without their UTC
\* offsets: two runs get the same name exactly when these agree, so windows that
\* differ only in UTC offset share one name.
C8_NameByWallClock ==
    names # <<>> => (names[1] = names[2] <=> SameNameKey(runs[1], runs[2]))

C8_Witness ==
    /\ names # <<>>
    /\ names[1] = names[2]
    /\ runs[1].namespace = runs[2].namespace
    /\ runs[1].end = runs[2].end
    /\ runs[1].start = TimeStrOf(18, 0, 0, 8)
    /\ runs[2].start = TimeStrOf(18, 0, 0, 0)

\* what holds of every state of a run, and of every step, for C9
C9_Inv ==
    /\ IsPrefix(stages, StageOrder)
    /\ fatalMsg # Nil <=> pc = "fatal"
    /\ ~Created => (calls = <<>> /\ records = <<>> /\ buf = <<>>)
    /\ ~Ran("Create") => (filename = <<>> /\ (disk.exists => disk.data = OldData))
    /\ Created => (disk.exists /\ Ran("List") /\ deployments \in DeploymentLists)
    /\ Ran("ParseEnd") /\ ~FailedAt("ParseEnd") => (ParseOk(startTimeStr) /\ ParseOk(endTimeStr))
    /\ Ran("validate") /\ ~FailedAt("validate") => validate(config) = Nil
C9_Step ==
    /\ pc # "fatal"
    /\ ~Created' => disk' = disk
    /\ Len(stages') \in {Len(stages), Len(stages) + 1}

\* C9: the stages run in program order and the first failing one ends the run:
\* nothing moves after a fatal exit; the report file is left as it was until
\* every stage before its creation has succeeded; no metrics call and no write
\* precedes the creation of the file.
C9_StagesInOrder == []C9_Inv /\ [][C9_Step]_vars

C9_Witness ==
    /\ FailedAt("List")
    /\ disk = [exists |-> TRUE, data |-> OldData]
    /\ calls = <<>>

\* what holds of every state of a run, and of every step, for C10
C10_Inv ==
    Created =>
        /\ disk.exists
        /\ Returned <= Len(deployments)
        /\ IsPrefix(disk.data, Flatten(RecordsUpTo(Returned)))
        /\ disk.data \o buf = Flatten(records)
        /\ IsPrefix(records, RecordsUpTo(Returned))
        /\ pc = "done" =>
              /\ buf = <<>>
              /\ disk.data = Flatten(RecordsUpTo(Len(deployments)))
C10_Step == (Created /\ Created') => IsPrefix(disk.data, disk'.data)

====
